---- MODULE Spec2Model ----
(***************************************************************************)
(* Booking consistency logic of the gym backend: class seat allocation     *)
(* (bookClass, cancelClassBooking) and personal-training scheduling        *)
(* (bookPersonalTraining, updatePersonalTraining), over the relational     *)
(* store the handlers read and write.                                      *)
(*                                                                         *)
(* Every handler is a sequence of awaited store calls with no transaction  *)
(* around them.  Each store call is one operator below; a handler is       *)
(* modelled twice from the same operators: as one atomic action (calls     *)
(* that do not overlap in time) and as one action per store call (calls    *)
(* that interleave).                                                       *)
(***************************************************************************)
EXTENDS Integers, Sequences, FiniteSets, TLC

VARIABLES
    classSchedules,   \* class_schedules rows: id -> [available_spots, is_cancelled]
    classBookings,    \* class_bookings rows in insertion order; id = position (serial)
    sessions,         \* personal_training_sessions rows in insertion order; id = position
    userMemberships,  \* user_memberships rows in insertion order; id = position
    now,              \* the process-wide clock read by new Date()
    last,             \* outcome of the most recently completed call
    pc,               \* per in-flight call: the next store call it will make
    loc,              \* per in-flight call: its input and the rows it has read so far
    spots0,           \* history: available_spots of every schedule at the start
    confirmedCreated  \* history: per schedule, bookings inserted with status confirmed

vars == <<classSchedules, classBookings, sessions, userMemberships, now, last,
          pc, loc, spots0, confirmedCreated>>

classVars == <<classSchedules, classBookings, spots0, confirmedCreated>>

----------------------------------------------------------------------------
(* Bounds of the model *)

MaxBookings     == 3     \* rows of class_bookings, calls one after another
MaxConcBookings == 2     \* rows of class_bookings, calls that overlap
MaxSpots        == 2     \* initial available_spots of a schedule
MaxSessions     == 2     \* rows of personal_training_sessions, calls one after another
MaxConcSessions == 2     \* rows of personal_training_sessions, calls that overlap
NumProcs        == 2     \* handler invocations in flight at once

Procs == 1..NumProcs

----------------------------------------------------------------------------
(* The fixed tables: users and schedule ids *)

usersTable == {"u1", "u2", "u3"}
UserIds    == usersTable \cup {"u9"}          \* u9: an id that is in no row

ScheduleRows == {"s1", "s2"}
ScheduleIds  == ScheduleRows \cup {"s9"}      \* s9: an id that is in no row

NoTime == {}                                   \* a NULL timestamp column
Idle   == [op |-> "none"]

----------------------------------------------------------------------------
(* bookClass: the store calls *)

\* the select without its where clause
SelectAnyUser(user_id) == usersTable

\* select from users where id = input.user_id
SelectUser(user_id) == {u \in usersTable : u = user_id}

\* the select without its is_cancelled condition
SelectScheduleById(schedules, schedule_id) ==
    {s \in DOMAIN schedules : s = schedule_id}

\* select from class_schedules where id = schedule_id and is_cancelled = false
SelectOpenSchedule(schedules, schedule_id) ==
    {s \in DOMAIN schedules : s = schedule_id /\ schedules[s].is_cancelled = FALSE}

\* the select with status <> 'cancelled' in place of status = 'confirmed'
SelectActiveBookings(bookings, user_id, schedule_id) ==
    {i \in DOMAIN bookings :
        /\ bookings[i].user_id = user_id
        /\ bookings[i].schedule_id = schedule_id
        /\ bookings[i].booking_status # "cancelled"}

\* Variant: the duplicate check looks for the wrong status value.
SelectWaitlistBookings(bookings, user_id, schedule_id) ==
    {i \in DOMAIN bookings :
        /\ bookings[i].user_id = user_id
        /\ bookings[i].schedule_id = schedule_id
        /\ bookings[i].booking_status = "waitlist"}

\* select from class_bookings where user_id, schedule_id and status = confirmed
SelectConfirmedBookings(bookings, user_id, schedule_id) ==
    {i \in DOMAIN bookings :
        /\ bookings[i].user_id = user_id
        /\ bookings[i].schedule_id = schedule_id
        /\ bookings[i].booking_status = "confirmed"}

\* Variant: the seat test is off by one (< 0 for <= 0).
BookingStatusForStrict(available_spots) ==
    IF available_spots < 0 THEN "waitlist" ELSE "confirmed"

\* let bookingStatus = 'confirmed'; if (available_spots <= 0) bookingStatus = 'waitlist'
BookingStatusFor(available_spots) ==
    IF available_spots <= 0 THEN "waitlist" ELSE "confirmed"

\* insert into class_bookings values (user_id, schedule_id, booking_status)
InsertBooking(bookings, user_id, schedule_id, status) ==
    Append(bookings, [id             |-> Len(bookings) + 1,
                      user_id        |-> user_id,
                      schedule_id    |-> schedule_id,
                      booking_status |-> status,
                      cancelled_at   |-> NoTime])

\* Variant: the decrement is applied to the row as it is when written
\* (set available_spots = available_spots - 1).
DecrementedSpotsInPlace(readSpots, rowSpots) == rowSpots - 1

\* The value the handler writes into available_spots: computed from the row it
\* read (readSpots), not from the row as it is at the time of the write (rowSpots).
DecrementedSpots(readSpots, rowSpots) == readSpots - 1

\* Variant: the update has no where clause and writes every row.
UpdateSpotsEveryRow(schedules, schedule_id, readSpots) ==
    [s \in DOMAIN schedules |->
        [schedules[s] EXCEPT !.available_spots = readSpots - 1]]

\* update class_schedules set available_spots = ... where id = schedule_id
UpdateSpots(schedules, schedule_id, readSpots) ==
    [schedules EXCEPT ![schedule_id].available_spots =
        DecrementedSpots(readSpots, schedules[schedule_id].available_spots)]

CountConfirmed(created, schedule_id, status) ==
    IF status = "confirmed"
    THEN [created EXCEPT ![schedule_id] = @ + 1]
    ELSE created

----------------------------------------------------------------------------
(* cancelClassBooking: the store calls *)

\* the select without its user_id condition
SelectBookingById(bookings, booking_id, user_id) ==
    {i \in DOMAIN bookings : i = booking_id}

\* select from class_bookings where id = booking_id and user_id = user_id
SelectOwnBooking(bookings, booking_id, user_id) ==
    {i \in DOMAIN bookings : i = booking_id /\ bookings[i].user_id = user_id}

\* the update followed by a promotion: the oldest waitlist booking on the
\* schedule of the cancelled booking becomes confirmed
UpdateCancelledPromoting(bookings, booking_id, user_id, at) ==
    LET waiting == {j \in DOMAIN bookings :
                       /\ j # booking_id
                       /\ booking_id \in DOMAIN bookings
                       /\ bookings[j].schedule_id =
                              bookings[booking_id].schedule_id
                       /\ bookings[j].booking_status = "waitlist"}
    IN  [i \in DOMAIN bookings |->
            IF i = booking_id /\ bookings[i].user_id = user_id
            THEN [bookings[i] EXCEPT !.booking_status = "cancelled",
                                     !.cancelled_at = {at}]
            ELSE IF waiting # {} /\ \A j \in waiting : i <= j
                                /\ i \in waiting
                 THEN [bookings[i] EXCEPT !.booking_status = "confirmed"]
                 ELSE bookings[i]]

\* the update without the id condition of its where clause
UpdateCancelledOfUser(bookings, booking_id, user_id, at) ==
    [i \in DOMAIN bookings |->
        IF bookings[i].user_id = user_id
        THEN [bookings[i] EXCEPT !.booking_status = "cancelled",
                                 !.cancelled_at = {at}]
        ELSE bookings[i]]

\* the update without its cancelled_at column
UpdateCancelledStatusOnly(bookings, booking_id, user_id, at) ==
    [i \in DOMAIN bookings |->
        IF i = booking_id /\ bookings[i].user_id = user_id
        THEN [bookings[i] EXCEPT !.booking_status = "cancelled"]
        ELSE bookings[i]]

\* update class_bookings set status = cancelled, cancelled_at = new Date()
\*   where id = booking_id and user_id = user_id
UpdateCancelled(bookings, booking_id, user_id, at) ==
    [i \in DOMAIN bookings |->
        IF i = booking_id /\ bookings[i].user_id = user_id
        THEN [bookings[i] EXCEPT !.booking_status = "cancelled",
                                 !.cancelled_at = {at}]
        ELSE bookings[i]]

----------------------------------------------------------------------------
(* Personal training: trainers, wall-clock strings, dates *)

\* trainers rows; hourly_rate in cents
trainersTable ==
    [t1 |-> [is_available |-> TRUE,  hourly_rate |-> 7500],
     t2 |-> [is_available |-> FALSE, hourly_rate |-> 5000],
     t3 |-> [is_available |-> TRUE,  hourly_rate |-> 5000]]
TrainerIds == {"t1", "t2", "t9"}    \* t9: an id that is in no row

\* A time-of-day string is the sequence of its characters, a character being
\* its rank in code-unit order: the digits '0'..'9' are 0..9 and ':' is 10
\* (':' follows '9' in the character set).
T0900 == <<0, 9, 10, 0, 0>>
T1000 == <<1, 0, 10, 0, 0>>
T1100 == <<1, 1, 10, 0, 0>>

\* a < b on strings: the first differing character decides, a proper prefix is less
StrLess(a, b) ==
    \E k \in 1..(Len(a) + 1) :
        /\ \A i \in 1..(k - 1) : i <= Len(b) /\ a[i] = b[i]
        /\ IF k > Len(a) THEN k <= Len(b)
                         ELSE k <= Len(b) /\ a[k] < b[k]

RECURSIVE Number(_)
\* Number("09") = 9: the decimal value of a digit string
Number(digits) ==
    IF digits = <<>> THEN 0
    ELSE Number(SubSeq(digits, 1, Len(digits) - 1)) * 10 + digits[Len(digits)]

\* const [h, m] = time.split(':').map(Number); h * 60 + m
TotalMinutes(time) ==
    LET colon == CHOOSE k \in 1..Len(time) : time[k] = 10
    IN  Number(SubSeq(time, 1, colon - 1)) * 60
          + Number(SubSeq(time, colon + 1, Len(time)))

\* the sign of durationHours is the sign of the difference in minutes
DurationMinutes(start_time, end_time) ==
    TotalMinutes(end_time) - TotalMinutes(start_time)

\* the product cut off after the second decimal instead of rounded
SessionPriceTruncated(hourly_rate, minutes) == (hourly_rate * minutes) \div 60

\* hourlyRate * durationHours, stored in a numeric(8,2) column: cents, rounded
SessionPrice(hourly_rate, minutes) == (hourly_rate * minutes * 2 + 60) \div 120

\* A timestamp: a calendar day and a time of day within it
D1 == [day |-> 1, tod |-> 0]
D2 == [day |-> 2, tod |-> 0]

Undefined == "<undefined>"      \* an optional input field that is not supplied
Null      == "<null>"           \* null

----------------------------------------------------------------------------
(* bookPersonalTraining: the store calls *)

\* select from trainers where id = trainer_id
SelectTrainer(trainer_id) == {t \in DOMAIN trainersTable : t = trainer_id}

\* select from personal_training_sessions
\*   where trainer_id = .. and session_date = .. and status = 'scheduled'
SelectScheduledSessions(rows, trainer_id, session_date) ==
    {i \in DOMAIN rows :
        /\ rows[i].trainer_id = trainer_id
        /\ rows[i].session_date = session_date
        /\ rows[i].status = "scheduled"}

\* Variant: the comparison is not strict, so a shared boundary counts as overlap.
OverlapsClosed(requestedStart, requestedEnd, existingStart, existingEnd) ==
    /\ ~ StrLess(existingEnd, requestedStart)
    /\ ~ StrLess(requestedEnd, existingStart)

\* requestedStart < existingEnd && requestedEnd > existingStart
Overlaps(requestedStart, requestedEnd, existingStart, existingEnd) ==
    StrLess(requestedStart, existingEnd) /\ StrLess(existingStart, requestedEnd)

\* conflictingSessions.some(...)
HasConflict(rows, conflicting, start_time, end_time) ==
    \E i \in conflicting :
        Overlaps(start_time, end_time, rows[i].start_time, rows[i].end_time)

\* notes: input.notes || null
NotesOrNull(notes) == IF notes \in {Undefined, Null, ""} THEN Null ELSE notes

\* insert into personal_training_sessions values (...)
InsertSession(rows, input, price, at) ==
    Append(rows, [id           |-> Len(rows) + 1,
                  user_id      |-> input.user_id,
                  trainer_id   |-> input.trainer_id,
                  session_date |-> input.session_date,
                  start_time   |-> input.start_time,
                  end_time     |-> input.end_time,
                  status       |-> "scheduled",
                  notes        |-> NotesOrNull(input.notes),
                  price        |-> price,
                  updated_at   |-> at])

----------------------------------------------------------------------------
(* updatePersonalTraining: the store calls *)

\* select from personal_training_sessions where id = .. and user_id = .. limit 1
SelectOwnSession(rows, session_id, user_id) ==
    {i \in DOMAIN rows : i = session_id /\ rows[i].user_id = user_id}

\* updateData whose status is written only over a scheduled session
UpdatedRowFromScheduled(row, input, at) ==
    [row EXCEPT !.updated_at = at,
                !.status = IF input.status # Undefined /\ @ = "scheduled"
                           THEN input.status ELSE @,
                !.notes  = IF input.notes # Undefined THEN input.notes ELSE @]

\* updateData with notes copied from the input whether supplied or not
UpdatedRowNotesAlways(row, input, at) ==
    [row EXCEPT !.updated_at = at,
                !.status = IF input.status # Undefined THEN input.status ELSE @,
                !.notes  = NotesOrNull(input.notes)]

\* updateData: updated_at always, status and notes only when supplied
UpdatedRow(row, input, at) ==
    [row EXCEPT !.updated_at = at,
                !.status = IF input.status # Undefined THEN input.status ELSE @,
                !.notes  = IF input.notes # Undefined THEN input.notes ELSE @]

\* update personal_training_sessions set .. where id = .. and user_id = ..
UpdateSession(rows, input, at) ==
    [i \in DOMAIN rows |->
        IF i = input.session_id /\ rows[i].user_id = input.user_id
        THEN UpdatedRow(rows[i], input, at)
        ELSE rows[i]]

----------------------------------------------------------------------------
(* Calls that do not overlap: each handler from its first store call to its *)
(* return or throw.                                                         *)

Quiet == \A p \in Procs : pc[p] = "idle"

Returns(op, outcome) == last' = [op |-> op, outcome |-> outcome]

bookClass(user_id, schedule_id) ==
    /\ Quiet
    /\ Len(classBookings) < MaxBookings
    /\ UNCHANGED <<sessions, now, userMemberships, pc, loc, spots0>>
    /\ IF SelectUser(user_id) = {}
       THEN /\ Returns("bookClass", "NotFound")
            /\ UNCHANGED <<classSchedules, classBookings, confirmedCreated>>
       ELSE IF SelectOpenSchedule(classSchedules, schedule_id) = {}
       THEN /\ Returns("bookClass", "NotFound")
            /\ UNCHANGED <<classSchedules, classBookings, confirmedCreated>>
       ELSE IF SelectConfirmedBookings(classBookings, user_id, schedule_id) # {}
       THEN /\ Returns("bookClass", "Conflict")
            /\ UNCHANGED <<classSchedules, classBookings, confirmedCreated>>
       ELSE LET readSpots == classSchedules[schedule_id].available_spots
                status    == BookingStatusFor(readSpots)
            IN  /\ classBookings' =
                       InsertBooking(classBookings, user_id, schedule_id, status)
                /\ confirmedCreated' =
                       CountConfirmed(confirmedCreated, schedule_id, status)
                /\ classSchedules' =
                       IF status = "confirmed"
                       THEN UpdateSpots(classSchedules, schedule_id, readSpots)
                       ELSE classSchedules
                /\ Returns("bookClass", "ok")

cancelClassBooking(booking_id, user_id) ==
    /\ Quiet
    /\ UNCHANGED <<classSchedules, sessions, now, userMemberships, pc, loc, spots0, confirmedCreated>>
    /\ IF SelectOwnBooking(classBookings, booking_id, user_id) = {}
       THEN /\ Returns("cancelClassBooking", "NotFound")
            /\ UNCHANGED classBookings
       ELSE IF classBookings[booking_id].booking_status = "cancelled"
       THEN /\ Returns("cancelClassBooking", "InvalidState")
            /\ UNCHANGED classBookings
       ELSE /\ classBookings' =
                   UpdateCancelled(classBookings, booking_id, user_id, now)
            /\ Returns("cancelClassBooking", "ok")

bookPersonalTraining(input) ==
    /\ Quiet
    /\ Len(sessions) < MaxSessions
    /\ UNCHANGED <<classVars, now, userMemberships, pc, loc>>
    /\ IF SelectUser(input.user_id) = {}
       THEN Returns("bookPersonalTraining", "NotFound") /\ UNCHANGED sessions
       ELSE IF SelectTrainer(input.trainer_id) = {}
       THEN Returns("bookPersonalTraining", "NotFound") /\ UNCHANGED sessions
       ELSE IF ~ trainersTable[input.trainer_id].is_available
       THEN Returns("bookPersonalTraining", "InvalidState") /\ UNCHANGED sessions
       ELSE IF HasConflict(sessions,
                           SelectScheduledSessions(sessions, input.trainer_id,
                                                   input.session_date),
                           input.start_time, input.end_time)
       THEN Returns("bookPersonalTraining", "Conflict") /\ UNCHANGED sessions
       ELSE IF DurationMinutes(input.start_time, input.end_time) <= 0
       THEN Returns("bookPersonalTraining", "InvalidInput") /\ UNCHANGED sessions
       ELSE /\ sessions' =
                   InsertSession(sessions, input,
                       SessionPrice(trainersTable[input.trainer_id].hourly_rate,
                           DurationMinutes(input.start_time, input.end_time)),
                       now)
            /\ Returns("bookPersonalTraining", "ok")

updatePersonalTraining(input) ==
    /\ Quiet
    /\ UNCHANGED <<classVars, now, userMemberships, pc, loc>>
    /\ IF SelectOwnSession(sessions, input.session_id, input.user_id) = {}
       THEN Returns("updatePersonalTraining", "NotFound") /\ UNCHANGED sessions
       ELSE /\ sessions' = UpdateSession(sessions, input, now)
            /\ Returns("updatePersonalTraining", "ok")

----------------------------------------------------------------------------
(* Calls that overlap: one action per awaited store call.  pc[p] names the   *)
(* store call the handler invocation p makes next, loc[p] holds its input    *)
(* and what its earlier store calls returned.                                *)

Goto(p, label, locals) ==
    /\ pc' = [pc EXCEPT ![p] = label]
    /\ loc' = [loc EXCEPT ![p] = locals]

Done(p, op, outcome) ==
    /\ pc' = [pc EXCEPT ![p] = "idle"]
    /\ loc' = [loc EXCEPT ![p] = Idle]
    /\ Returns(op, outcome)

\* bookClass calls that have not yet made their insert
InsertsPending == Cardinality({p \in Procs : loc[p].op = "bookClass"
                                   /\ pc[p] # "bc_update"})

BC_SelectUser(p, user_id, schedule_id) ==
    /\ pc[p] = "idle"
    /\ Len(classBookings) + InsertsPending < MaxConcBookings
    /\ UNCHANGED <<classVars, sessions, now, userMemberships>>
    /\ IF SelectUser(user_id) = {}
       THEN Done(p, "bookClass", "NotFound")
       ELSE /\ Goto(p, "bc_schedule", [op |-> "bookClass", user_id |-> user_id,
                                       schedule_id |-> schedule_id])
            /\ UNCHANGED last

BC_SelectSchedule(p) ==
    /\ pc[p] = "bc_schedule"
    /\ UNCHANGED <<classVars, sessions, now, userMemberships>>
    /\ IF SelectOpenSchedule(classSchedules, loc[p].schedule_id) = {}
       THEN Done(p, "bookClass", "NotFound")
       ELSE /\ Goto(p, "bc_existing",
                    [op |-> "bookClass", user_id |-> loc[p].user_id,
                     schedule_id |-> loc[p].schedule_id,
                     readSpots |-> classSchedules[loc[p].schedule_id].available_spots])
            /\ UNCHANGED last

BC_SelectExisting(p) ==
    /\ pc[p] = "bc_existing"
    /\ UNCHANGED <<classVars, sessions, now, userMemberships>>
    /\ IF SelectConfirmedBookings(classBookings, loc[p].user_id,
                                  loc[p].schedule_id) # {}
       THEN Done(p, "bookClass", "Conflict")
       ELSE /\ Goto(p, "bc_insert", loc[p])
            /\ UNCHANGED last

BC_Insert(p) ==
    /\ pc[p] = "bc_insert"
    /\ LET status == BookingStatusFor(loc[p].readSpots)
       IN  /\ classBookings' = InsertBooking(classBookings, loc[p].user_id,
                                             loc[p].schedule_id, status)
           /\ confirmedCreated' =
                  CountConfirmed(confirmedCreated, loc[p].schedule_id, status)
           /\ IF status = "confirmed"
              THEN Goto(p, "bc_update", loc[p]) /\ UNCHANGED last
              ELSE Done(p, "bookClass", "ok")
    /\ UNCHANGED <<classSchedules, spots0, sessions, now, userMemberships>>

BC_Update(p) ==
    /\ pc[p] = "bc_update"
    /\ classSchedules' =
           UpdateSpots(classSchedules, loc[p].schedule_id, loc[p].readSpots)
    /\ Done(p, "bookClass", "ok")
    /\ UNCHANGED <<classBookings, spots0, confirmedCreated, sessions, now, userMemberships>>

CC_Select(p, booking_id, user_id) ==
    /\ pc[p] = "idle"
    /\ UNCHANGED <<classVars, sessions, now, userMemberships>>
    /\ IF SelectOwnBooking(classBookings, booking_id, user_id) = {}
       THEN Done(p, "cancelClassBooking", "NotFound")
       ELSE IF classBookings[booking_id].booking_status = "cancelled"
       THEN Done(p, "cancelClassBooking", "InvalidState")
       ELSE /\ Goto(p, "cc_update", [op |-> "cancelClassBooking",
                                     booking_id |-> booking_id,
                                     user_id |-> user_id])
            /\ UNCHANGED last

CC_Update(p) ==
    /\ pc[p] = "cc_update"
    /\ classBookings' = UpdateCancelled(classBookings, loc[p].booking_id,
                                        loc[p].user_id, now)
    /\ Done(p, "cancelClassBooking", "ok")
    /\ UNCHANGED <<classSchedules, spots0, confirmedCreated, sessions, now, userMemberships>>

(* A store write that fails: execute() rejects, the handler's catch logs and *)
(* rethrows, and nothing undoes the store calls already made.                *)

BC_InsertFails(p) ==
    /\ pc[p] = "bc_insert"
    /\ Done(p, "bookClass", "StoreError")
    /\ UNCHANGED <<classVars, sessions, now, userMemberships>>

BC_UpdateFails(p) ==
    /\ pc[p] = "bc_update"
    /\ Done(p, "bookClass", "StoreError")
    /\ UNCHANGED <<classVars, sessions, now, userMemberships>>

\* bookPersonalTraining calls that have not yet made their insert
SessionInsertsPending ==
    Cardinality({p \in Procs : loc[p].op = "bookPersonalTraining"})

BP_SelectUser(p, input) ==
    /\ pc[p] = "idle"
    /\ Len(sessions) + SessionInsertsPending < MaxConcSessions
    /\ UNCHANGED <<classVars, sessions, now, userMemberships>>
    /\ IF SelectUser(input.user_id) = {}
       THEN Done(p, "bookPersonalTraining", "NotFound")
       ELSE /\ Goto(p, "bp_trainer", [op |-> "bookPersonalTraining",
                                      input |-> input])
            /\ UNCHANGED last

BP_SelectTrainer(p) ==
    /\ pc[p] = "bp_trainer"
    /\ UNCHANGED <<classVars, sessions, now, userMemberships>>
    /\ IF SelectTrainer(loc[p].input.trainer_id) = {}
       THEN Done(p, "bookPersonalTraining", "NotFound")
       ELSE IF ~ trainersTable[loc[p].input.trainer_id].is_available
       THEN Done(p, "bookPersonalTraining", "InvalidState")
       ELSE Goto(p, "bp_conflicts", loc[p]) /\ UNCHANGED last

BP_SelectConflicts(p) ==
    /\ pc[p] = "bp_conflicts"
    /\ UNCHANGED <<classVars, sessions, now, userMemberships>>
    /\ LET input == loc[p].input
       IN  IF HasConflict(sessions,
                          SelectScheduledSessions(sessions, input.trainer_id,
                                                  input.session_date),
                          input.start_time, input.end_time)
           THEN Done(p, "bookPersonalTraining", "Conflict")
           ELSE IF DurationMinutes(input.start_time, input.end_time) <= 0
           THEN Done(p, "bookPersonalTraining", "InvalidInput")
           ELSE Goto(p, "bp_insert", loc[p]) /\ UNCHANGED last

BP_Insert(p) ==
    /\ pc[p] = "bp_insert"
    /\ LET input == loc[p].input
       IN  sessions' =
               InsertSession(sessions, input,
                   SessionPrice(trainersTable[input.trainer_id].hourly_rate,
                       DurationMinutes(input.start_time, input.end_time)),
                   now)
    /\ Done(p, "bookPersonalTraining", "ok")
    /\ UNCHANGED <<classVars, now, userMemberships>>

----------------------------------------------------------------------------
(* Initial states: the tables as seeded before the first call *)

Init ==
    /\ classSchedules \in
           {f \in [ScheduleRows ->
                      [available_spots : 0..MaxSpots, is_cancelled : BOOLEAN]] :
               f["s1"].is_cancelled = FALSE}
    /\ classBookings = <<>>
    /\ sessions = <<>>
    /\ userMemberships = <<>>
    /\ now = 0
    /\ last = [op |-> "none", outcome |-> "none"]
    /\ pc = [p \in Procs |-> "idle"]
    /\ loc = [p \in Procs |-> Idle]
    /\ spots0 = [s \in ScheduleRows |-> classSchedules[s].available_spots]
    /\ confirmedCreated = [s \in ScheduleRows |-> 0]

----------------------------------------------------------------------------
(* Class booking, calls one after another *)

NextClassSeq ==
    \/ \E u \in UserIds, s \in ScheduleIds : bookClass(u, s)
    \/ \E b \in 1..MaxBookings, u \in UserIds : cancelClassBooking(b, u)

SpecClassSeq == Init /\ [][NextClassSeq]_vars

(* Class booking, calls overlapping in time *)

NextClassConc ==
    \E p \in Procs :
        \/ \E u \in usersTable, s \in ScheduleRows : BC_SelectUser(p, u, s)
        \/ BC_SelectSchedule(p)
        \/ BC_SelectExisting(p)
        \/ BC_Insert(p)
        \/ BC_Update(p)
        \/ \E b \in 1..MaxConcBookings, u \in usersTable : CC_Select(p, b, u)
        \/ CC_Update(p)

\* One open schedule (s1); s2 is a cancelled one.
InitOneOpen ==
    /\ Init
    /\ classSchedules["s2"] = [available_spots |-> 0, is_cancelled |-> TRUE]

SpecClassConc == InitOneOpen /\ [][NextClassConc]_vars

(* Class booking, one call at a time, over a store whose writes may fail *)

NextClassFault ==
    \/ \E u \in usersTable, s \in ScheduleRows : BC_SelectUser(1, u, s)
    \/ BC_SelectSchedule(1)
    \/ BC_SelectExisting(1)
    \/ BC_Insert(1)
    \/ BC_Update(1)
    \/ BC_InsertFails(1)
    \/ BC_UpdateFails(1)
    \/ \E b \in 1..MaxConcBookings, u \in usersTable : CC_Select(1, b, u)
    \/ CC_Update(1)

SpecClassFault == InitOneOpen /\ [][NextClassFault]_vars

(* Personal training: the inputs the calls are made with *)

Times == {T0900, T1000, T1100}
Dates == {D1, D2}
PTUsers == {"u1", "u2"}

BookInputs ==
    [user_id : PTUsers \cup {"u9"}, trainer_id : TrainerIds,
     session_date : Dates, start_time : Times, end_time : Times,
     notes : {Undefined}]

UpdateInputs ==
    [session_id : 1..MaxSessions, user_id : PTUsers,
     status : {Undefined, "scheduled", "completed", "cancelled"},
     notes : {Undefined}]

\* overlapping calls: existing users
ConcBookInputs ==
    [user_id : PTUsers, trainer_id : DOMAIN trainersTable, session_date : Dates,
     start_time : Times, end_time : Times, notes : {Undefined}]

(* Personal training, calls one after another *)

NextPTSeq ==
    \/ \E input \in BookInputs : bookPersonalTraining(input)
    \/ \E input \in UpdateInputs : updatePersonalTraining(input)

\* The class tables play no part: one open schedule without seats.
InitPT ==
    /\ InitOneOpen
    /\ classSchedules["s1"].available_spots = 0

SpecPTSeq == InitPT /\ [][NextPTSeq]_vars

(* Personal training, bookings only, one after another *)

NextPTBook == \E input \in BookInputs : bookPersonalTraining(input)

SpecPTBook == InitPT /\ [][NextPTBook]_vars

(* Personal training, calls overlapping in time *)

NextPTConc ==
    \E p \in Procs :
        \/ \E input \in ConcBookInputs : BP_SelectUser(p, input)
        \/ BP_SelectTrainer(p)
        \/ BP_SelectConflicts(p)
        \/ BP_Insert(p)

SpecPTConc == InitPT /\ [][NextPTConc]_vars

----------------------------------------------------------------------------
(* Properties of class booking *)

BookingsOn(s) == {i \in DOMAIN classBookings : classBookings[i].schedule_id = s}

WithStatus(B, status) == {i \in B : classBookings[i].booking_status = status}

DistinctUsers(B) ==
    \A i, j \in B : classBookings[i].user_id = classBookings[j].user_id => i = j

Min(a, b) == IF a <= b THEN a ELSE b

\* C1: a schedule that started with k seats and has since been booked N times,
\* each time by a different user and with no booking cancelled, holds exactly
\* min(N,k) confirmed bookings, N - min(N,k) waitlist bookings, and has
\* available_spots = k - min(N,k).
C1_SeatAllocation ==
    \A s \in ScheduleRows :
        LET B == BookingsOn(s)
            N == Cardinality(B)
            m == Min(N, spots0[s])
        IN  (DistinctUsers(B) /\ WithStatus(B, "cancelled") = {}) =>
                /\ Cardinality(WithStatus(B, "confirmed")) = m
                /\ Cardinality(WithStatus(B, "waitlist")) = N - m
                /\ classSchedules[s].available_spots = spots0[s] - m

\* More distinct users than seats have booked: some confirmed, some waitlisted.
C1_Witness ==
    \E s \in ScheduleRows :
        LET B == BookingsOn(s)
        IN  /\ DistinctUsers(B) /\ WithStatus(B, "cancelled") = {}
            /\ spots0[s] >= 1
            /\ Cardinality(B) > spots0[s]
            /\ last = [op |-> "bookClass", outcome |-> "ok"]

\* C2: on a schedule that started with one seat, no two bookings of different
\* users are both confirmed (the last seat is not double-booked).
C2_LastSeatOnce ==
    \A s \in ScheduleRows :
        spots0[s] = 1 =>
            \A i, j \in WithStatus(BookingsOn(s), "confirmed") :
                classBookings[i].user_id # classBookings[j].user_id => i = j

SeatsTaken(s) == spots0[s] - classSchedules[s].available_spots

\* C5: whenever no call is in flight, also after a call that failed on a store
\* write, no confirmed booking that bookClass inserted is without its seat
\* decrement and no seat decrement is without its confirmed booking.
C5_AllOrNothing ==
    Quiet =>
        \A s \in ScheduleRows :
            /\ ~ (confirmedCreated[s] > SeatsTaken(s))
            /\ ~ (SeatsTaken(s) > confirmedCreated[s])

\* C6: each (user, schedule) pair has at most one booking with status confirmed.
C6_OneConfirmedPerUser ==
    \A u \in usersTable, s \in ScheduleRows :
        Cardinality({i \in WithStatus(BookingsOn(s), "confirmed") :
                        classBookings[i].user_id = u}) <= 1

\* A user who cancelled a booking and booked the same schedule again, and whose
\* further attempt was then refused.
C6_Witness ==
    /\ \E i, j \in DOMAIN classBookings :
          /\ i < j
          /\ classBookings[i].user_id = classBookings[j].user_id
          /\ classBookings[i].schedule_id = classBookings[j].schedule_id
          /\ classBookings[i].booking_status = "cancelled"
          /\ classBookings[j].booking_status = "confirmed"
    /\ last = [op |-> "bookClass", outcome |-> "Conflict"]

\* C7: between calls, for every schedule, the seats taken off available_spots
\* are exactly the bookings inserted as confirmed: one per confirmed booking,
\* none for a waitlist booking, none given back by a cancellation.
C7_DecrementPerConfirmed ==
    \A s \in ScheduleRows :
        spots0[s] - classSchedules[s].available_spots = confirmedCreated[s]

\* A schedule with a confirmed booking, a waitlist booking and a cancelled one.
C7_Witness ==
    \E s \in ScheduleRows :
        /\ WithStatus(BookingsOn(s), "confirmed") # {}
        /\ WithStatus(BookingsOn(s), "waitlist") # {}
        /\ WithStatus(BookingsOn(s), "cancelled") # {}

\* C8: once every call has completed, the seats taken off available_spots
\* equal the number of bookings inserted as confirmed.
C8_NoLostDecrement ==
    Quiet =>
        \A s \in ScheduleRows :
            SeatsTaken(s) = confirmedCreated[s]

\* C9: available_spots never goes below zero.
C9_SpotsNonNegative ==
    \A s \in ScheduleRows : classSchedules[s].available_spots >= 0

\* Two overlapping calls have both read the last seat and both written the
\* counter, and one of the bookings has been cancelled since.
C9_Witness ==
    /\ Quiet
    /\ spots0["s1"] = 1
    /\ confirmedCreated["s1"] = 2
    /\ WithStatus(BookingsOn("s1"), "cancelled") # {}
    /\ classSchedules["s1"].available_spots = 0

----------------------------------------------------------------------------
(* Properties of personal training *)

\* [s1,e1) and [s2,e2) overlap as intervals of minutes of the day
IntervalsOverlap(s1, e1, s2, e2) ==
    /\ TotalMinutes(s1) < TotalMinutes(e2)
    /\ TotalMinutes(s2) < TotalMinutes(e1)

SameSlotOwner(i, j) ==
    /\ sessions[i].trainer_id = sessions[j].trainer_id
    /\ sessions[i].session_date = sessions[j].session_date
    /\ sessions[i].status = "scheduled"
    /\ sessions[j].status = "scheduled"

\* C3: no two scheduled sessions of the same trainer on the same session_date
\* have overlapping intervals [start_time, end_time).
C3_NoOverlappingScheduled ==
    \A i, j \in DOMAIN sessions :
        (i # j /\ SameSlotOwner(i, j)) =>
            ~ IntervalsOverlap(sessions[i].start_time, sessions[i].end_time,
                               sessions[j].start_time, sessions[j].end_time)

\* C4: of two bookings for the same trainer and date whose times overlap, at
\* most one is stored as a scheduled session.
C4_OneOfOverlapping ==
    \A i, j \in DOMAIN sessions :
        (i < j /\ SameSlotOwner(i, j)) =>
            ~ Overlaps(sessions[j].start_time, sessions[j].end_time,
                       sessions[i].start_time, sessions[i].end_time)

ZeroPadded(time) == Len(time) = 5

\* A valid zero-padded interval requested by an existing user from an
\* available trainer
C10_ValidRequest(input) ==
    /\ input.user_id \in usersTable
    /\ input.trainer_id \in DOMAIN trainersTable
    /\ trainersTable[input.trainer_id].is_available
    /\ ZeroPadded(input.start_time) /\ ZeroPadded(input.end_time)
    /\ TotalMinutes(input.start_time) < TotalMinutes(input.end_time)

SessionsOf(trainer_id, session_date) ==
    {i \in DOMAIN sessions :
        /\ sessions[i].trainer_id = trainer_id
        /\ sessions[i].session_date = session_date}

\* The trainer has no session on the date.
C10_FirstCall(input) ==
    /\ C10_ValidRequest(input)
    /\ SessionsOf(input.trainer_id, input.session_date) = {}

\* The call before was the booking that stored the only session of this
\* trainer and date.
C10_SecondCall(input) ==
    /\ C10_ValidRequest(input)
    /\ last = [op |-> "bookPersonalTraining", outcome |-> "ok"]
    /\ SessionsOf(input.trainer_id, input.session_date) = {Len(sessions)}
    /\ sessions[Len(sessions)].status = "scheduled"
    /\ ZeroPadded(sessions[Len(sessions)].start_time)
    /\ ZeroPadded(sessions[Len(sessions)].end_time)

\* b <= c or d <= a, for the stored [a,b) and the requested [c,d)
C10_Disjoint(first, input) ==
    \/ TotalMinutes(first.end_time) <= TotalMinutes(input.start_time)
    \/ TotalMinutes(input.end_time) <= TotalMinutes(first.start_time)

\* The call returned ok and stored the requested interval as a scheduled session.
C10_Stored(input) ==
    /\ last'.outcome = "ok"
    /\ Len(sessions') = Len(sessions) + 1
    /\ SubSeq(sessions', 1, Len(sessions)) = sessions
    /\ sessions'[Len(sessions')].status = "scheduled"
    /\ sessions'[Len(sessions')].trainer_id = input.trainer_id
    /\ sessions'[Len(sessions')].session_date = input.session_date
    /\ sessions'[Len(sessions')].start_time = input.start_time
    /\ sessions'[Len(sessions')].end_time = input.end_time

\* C10: a first booking [a,b) for a trainer and date with no session succeeds;
\* a second booking [c,d) for the same trainer and date right after it succeeds
\* and stores its session when b <= c or d <= a (so also back to back, b = c),
\* and otherwise fails with Conflict and stores nothing.
C10_BothIffDisjoint ==
    [][\A input \in BookInputs :
          /\ (C10_FirstCall(input) /\ bookPersonalTraining(input)) =>
                 C10_Stored(input)
          /\ (C10_SecondCall(input) /\ bookPersonalTraining(input)) =>
                 IF C10_Disjoint(sessions[Len(sessions)], input)
                 THEN C10_Stored(input)
                 ELSE last'.outcome = "Conflict" /\ sessions' = sessions]_vars

\* Two back-to-back sessions of one trainer on one date, both scheduled, the
\* second stored by the call that has just returned.
C10_Witness ==
    /\ Len(sessions) = 2
    /\ SameSlotOwner(1, 2)
    /\ sessions[1].end_time = sessions[2].start_time
    /\ last = [op |-> "bookPersonalTraining", outcome |-> "ok"]

\* An existing user asks an available trainer for an interval whose end_time
\* is not after its start_time
C11_NotAfterStart(input) ==
    /\ input.user_id \in usersTable
    /\ input.trainer_id \in DOMAIN trainersTable
    /\ trainersTable[input.trainer_id].is_available
    /\ TotalMinutes(input.end_time) <= TotalMinutes(input.start_time)

\* C11: bookPersonalTraining called by an existing user for an available
\* trainer with an end_time that is not strictly after start_time fails with
\* InvalidInput, whatever sessions are stored, and stores no session.
C11_RejectsAsInvalidInput ==
    [][\A input \in BookInputs :
          (C11_NotAfterStart(input) /\ bookPersonalTraining(input)) =>
              /\ last'.outcome = "InvalidInput"
              /\ sessions' = sessions]_vars

----------------------------------------------------------------------------
(* Ownership: class bookings and sessions of two users, cancelled and        *)
(* updated by either of them or by an unknown user.                          *)

MaxOwnBookings == 2
MaxOwnSessions == 2

\* Each user books the trainer's first hour on a date of their own.
OwnBookInputs ==
    {input \in BookInputs :
        /\ input.trainer_id = "t1"
        /\ input.start_time = T0900
        /\ input.end_time = T1000
        /\ \/ input.user_id = "u1" /\ input.session_date = D1
           \/ input.user_id = "u2" /\ input.session_date = D2}

OwnUpdateInputs ==
    {input \in [session_id : 1..(MaxOwnSessions + 1),
                user_id : PTUsers \cup {"u9"},
                status : {Undefined, "completed"},
                notes : {Undefined}] : TRUE}

NextOwner ==
    \/ \E u \in PTUsers :
           Len(classBookings) < MaxOwnBookings /\ bookClass(u, "s1")
    \/ \E b \in 1..(MaxOwnBookings + 1), u \in PTUsers \cup {"u9"} :
           cancelClassBooking(b, u)
    \/ \E input \in OwnBookInputs :
           Len(sessions) < MaxOwnSessions /\ bookPersonalTraining(input)
    \/ \E input \in OwnUpdateInputs : updatePersonalTraining(input)

SpecOwner == InitPT /\ [][NextOwner]_vars

\* The booking does not exist or belongs to another user
C12_NotOwnBooking(b, u) ==
    b \in DOMAIN classBookings => classBookings[b].user_id # u

\* The session does not exist or belongs to another user
C12_NotOwnSession(input) ==
    input.session_id \in DOMAIN sessions =>
        sessions[input.session_id].user_id # input.user_id

\* C12: cancelClassBooking and updatePersonalTraining called with a user_id
\* that is not the owner's fail with NotFound, exactly as for an id that does
\* not exist, and leave every record as it was; and no call of either by user
\* u changes a booking or a session of another user.
C12_OwnerOnly ==
    [][/\ \A b \in 1..(MaxOwnBookings + 1), u \in PTUsers \cup {"u9"} :
              cancelClassBooking(b, u) =>
                  /\ C12_NotOwnBooking(b, u) =>
                         /\ last'.outcome = "NotFound"
                         /\ classBookings' = classBookings
                  /\ \A i \in DOMAIN classBookings :
                         classBookings[i].user_id # u =>
                             classBookings'[i] = classBookings[i]
                  /\ sessions' = sessions
       /\ \A input \in OwnUpdateInputs :
              updatePersonalTraining(input) =>
                  /\ C12_NotOwnSession(input) =>
                         /\ last'.outcome = "NotFound"
                         /\ sessions' = sessions
                  /\ \A i \in DOMAIN sessions :
                         sessions[i].user_id # input.user_id =>
                             sessions'[i] = sessions[i]
                  /\ classBookings' = classBookings]_vars

\* Both users hold a live booking and a scheduled session, and the cancel or
\* update call that has just returned was refused with NotFound.
C12_Witness ==
    /\ \E i, j \in DOMAIN classBookings :
           /\ classBookings[i].user_id # classBookings[j].user_id
           /\ classBookings[i].booking_status # "cancelled"
           /\ classBookings[j].booking_status # "cancelled"
    /\ \E i, j \in DOMAIN sessions :
           /\ sessions[i].user_id # sessions[j].user_id
           /\ sessions[i].status = "scheduled"
           /\ sessions[j].status = "scheduled"
    /\ last.outcome = "NotFound"
    /\ last.op \in {"cancelClassBooking", "updatePersonalTraining"}

----------------------------------------------------------------------------
(* Single bookClass and cancelClassBooking calls, one after another, by two  *)
(* users and an unknown one on an open, a cancelled and an unknown schedule. *)
(* A call that adds no row is made at a full table too.                      *)

MaxCallBookings == 2

CallUsers == PTUsers \cup {"u9"}

NextClassCall ==
    \/ \E u \in CallUsers, s \in ScheduleIds :
           bookClass(u, s) /\ Len(classBookings') <= MaxCallBookings
    \/ \E b \in 1..(MaxCallBookings + 1), u \in CallUsers :
           cancelClassBooking(b, u)

SpecClassCall == InitOneOpen /\ [][NextClassCall]_vars

----------------------------------------------------------------------------
(* Properties of single bookClass and cancelClassBooking calls *)

\* The user's confirmed bookings on the schedule
ConfirmedOf(u, s) ==
    {i \in WithStatus(BookingsOn(s), "confirmed") : classBookings[i].user_id = u}

\* C13: for an existing user and a schedule that is not cancelled, bookClass
\* fails with Conflict exactly when a confirmed booking of that user on that
\* schedule exists (a cancelled or waitlist booking does not block); when it
\* fails with Conflict no booking is added and available_spots is unchanged.
C13_ConflictIffConfirmed ==
    [][\A u \in usersTable, s \in ScheduleRows :
          (~ classSchedules[s].is_cancelled /\ bookClass(u, s)) =>
              IF ConfirmedOf(u, s) # {}
              THEN /\ last'.outcome = "Conflict"
                   /\ classBookings' = classBookings
                   /\ classSchedules' = classSchedules
              ELSE /\ last'.outcome = "ok"
                   /\ Len(classBookings') = Len(classBookings) + 1]_vars

\* A user's cancelled booking did not block their next one, which took the
\* second seat, and their third call has just been refused: two rows, two
\* seats gone.
C13_Witness ==
    /\ \E i, j \in DOMAIN classBookings :
           /\ i < j
           /\ classBookings[i].user_id = classBookings[j].user_id
           /\ classBookings[i].schedule_id = classBookings[j].schedule_id
           /\ classBookings[i].booking_status = "cancelled"
           /\ classBookings[j].booking_status = "confirmed"
           /\ SeatsTaken(classBookings[j].schedule_id) = 2
    /\ Len(classBookings) = 2
    /\ last = [op |-> "bookClass", outcome |-> "Conflict"]

\* C14: bookClass fails with NotFound when the user does not exist, when the
\* schedule does not exist and when the schedule has is_cancelled = true; it
\* then adds no booking and leaves available_spots unchanged.
C14_NotFoundCases ==
    [][\A u \in CallUsers, s \in ScheduleIds :
          (/\ \/ u \notin usersTable
              \/ s \notin ScheduleRows
              \/ classSchedules[s].is_cancelled
           /\ bookClass(u, s)) =>
              /\ last'.outcome = "NotFound"
              /\ classBookings' = classBookings
              /\ classSchedules' = classSchedules]_vars

\* A cancelled schedule, an open one with seats left, a stored booking, and a
\* bookClass call that has just been refused with NotFound.
C14_Witness ==
    /\ \E s \in ScheduleRows : classSchedules[s].is_cancelled
    /\ \E s \in ScheduleRows : classSchedules[s].available_spots > 0
    /\ classBookings # <<>>
    /\ last = [op |-> "bookClass", outcome |-> "NotFound"]

----------------------------------------------------------------------------
(* Cancelling while the clock runs: bookings of two users on the open        *)
(* schedule, cancelled at different instants.                                *)

MaxNow == 2

\* Time passes between calls: the next new Date() reads a later instant.
Tick ==
    /\ Quiet
    /\ now < MaxNow
    /\ now' = now + 1
    /\ UNCHANGED <<classVars, sessions, userMemberships, last, pc, loc>>

NextCancel ==
    \/ Tick
    \/ \E u \in PTUsers :
           bookClass(u, "s1") /\ Len(classBookings') <= MaxCallBookings
    \/ \E b \in 1..MaxCallBookings, u \in PTUsers : cancelClassBooking(b, u)

SpecCancel == InitOneOpen /\ [][NextCancel]_vars

\* C15: of two cancelClassBooking calls made one after the other by the owner
\* on the same booking, the first (the booking not yet cancelled) succeeds and
\* sets status cancelled and cancelled_at; the second fails with InvalidState
\* and leaves status and cancelled_at exactly as the first call set them.
C15_CancelOnce ==
    [][\A b \in 1..MaxCallBookings, u \in PTUsers :
          (/\ b \in DOMAIN classBookings
           /\ classBookings[b].user_id = u
           /\ cancelClassBooking(b, u)) =>
              IF classBookings[b].booking_status # "cancelled"
              THEN /\ last'.outcome = "ok"
                   /\ classBookings'[b].booking_status = "cancelled"
                   /\ classBookings'[b].cancelled_at = {now}
              ELSE /\ last'.outcome = "InvalidState"
                   /\ classBookings'[b] = classBookings[b]]_vars

\* A booking cancelled at an earlier instant whose second cancellation has
\* just been refused: it still carries the instant of the first.
C15_Witness ==
    /\ last = [op |-> "cancelClassBooking", outcome |-> "InvalidState"]
    /\ \E b \in DOMAIN classBookings, t \in 0..MaxNow :
           /\ classBookings[b].booking_status = "cancelled"
           /\ classBookings[b].cancelled_at = {t}
           /\ t < now

\* C16: a cancelClassBooking call that succeeds changes the status and the
\* cancelled_at of the booking it names and nothing else: available_spots of
\* every schedule stays as it was (the seat is not given back), no other
\* booking changes, and no waitlist booking is promoted.
C16_CancelTouchesOneRow ==
    [][\A b \in 1..MaxCallBookings, u \in PTUsers :
          (cancelClassBooking(b, u) /\ last'.outcome = "ok") =>
              /\ classSchedules' = classSchedules
              /\ DOMAIN classBookings' = DOMAIN classBookings
              /\ \A i \in DOMAIN classBookings :
                     IF i = b
                     THEN classBookings'[i] =
                              [classBookings[i] EXCEPT
                                   !.booking_status = classBookings'[i].booking_status,
                                   !.cancelled_at = classBookings'[i].cancelled_at]
                     ELSE classBookings'[i] = classBookings[i]]_vars

\* The only seat was booked, a second user was waitlisted, and the confirmed
\* booking has just been cancelled: the seat is still gone and the waitlist
\* booking is still waitlist.
C16_Witness ==
    /\ last = [op |-> "cancelClassBooking", outcome |-> "ok"]
    /\ spots0["s1"] = 1
    /\ confirmedCreated["s1"] = 1
    /\ classSchedules["s1"].available_spots = 0
    /\ WithStatus(BookingsOn("s1"), "confirmed") = {}
    /\ WithStatus(BookingsOn("s1"), "waitlist") # {}
    /\ WithStatus(BookingsOn("s1"), "cancelled") # {}

\* C17: each (user, schedule) pair has at most one active booking, that is at
\* most one booking whose status is not cancelled (confirmed or waitlist).
C17_OneActivePerUser ==
    \A u \in usersTable, s \in ScheduleRows :
        Cardinality({i \in BookingsOn(s) :
                        /\ classBookings[i].user_id = u
                        /\ classBookings[i].booking_status # "cancelled"}) <= 1

----------------------------------------------------------------------------
(* getTrainerAvailability *)

businessStart == 9
businessEnd == 20

\* a time-of-day is a number of milliseconds since local midnight
D1Noon == [day |-> 1, tod |-> 43200000]

\* new Date(date) followed by setHours(0, 0, 0, 0)
StartOfDay(date) == [day |-> date.day, tod |-> 0]

\* new Date(date) followed by setHours(23, 59, 59, 999)
EndOfDay(date) == [day |-> date.day, tod |-> ((23 * 60 + 59) * 60 + 59) * 1000 + 999]

\* a <= b on timestamps
DateLeq(a, b) == a.day < b.day \/ (a.day = b.day /\ a.tod <= b.tod)

\* between(column, low, high): low <= column and column <= high
Between(column, low, high) == DateLeq(low, column) /\ DateLeq(column, high)

\* the select without its status condition
SelectSessionsOfDayAnyStatus(rows, trainer_id, date) ==
    {i \in DOMAIN rows :
        /\ rows[i].trainer_id = trainer_id
        /\ Between(rows[i].session_date, StartOfDay(date), EndOfDay(date))}

\* select from personal_training_sessions where trainer_id = ..
\*   and session_date between startOfDay and endOfDay and status = 'scheduled'
SelectSessionsOfDay(rows, trainer_id, date) ==
    {i \in DOMAIN rows :
        /\ rows[i].trainer_id = trainer_id
        /\ Between(rows[i].session_date, StartOfDay(date), EndOfDay(date))
        /\ rows[i].status = "scheduled"}

\* hour.toString(): the decimal digits of an hour of the day
HourToString(hour) == IF hour < 10 THEN <<hour>> ELSE <<hour \div 10, hour % 10>>

\* s.padStart(2, '0')
PadStart2(s) == IF Len(s) >= 2 THEN s ELSE <<0>> \o s

\* hour.toString().padStart(2, '0') + ':00'
TimeSlot(hour) == PadStart2(HourToString(hour)) \o <<10, 0, 0>>

\* slotTime >= sessionStart && slotTime < sessionEnd, for some selected session
IsSlotTaken(rows, existingSessions, slotTime) ==
    \E i \in existingSessions :
        /\ ~ StrLess(slotTime, rows[i].start_time)
        /\ StrLess(slotTime, rows[i].end_time)

RECURSIVE AvailableSlots(_, _, _)
\* for (hour = ..; hour <= businessEnd; hour++) push the slot unless taken
AvailableSlots(rows, existingSessions, hour) ==
    IF hour > businessEnd THEN <<>>
    ELSE (IF IsSlotTaken(rows, existingSessions, TimeSlot(hour))
          THEN <<>> ELSE <<TimeSlot(hour)>>)
         \o AvailableSlots(rows, existingSessions, hour + 1)

getTrainerAvailability(input) ==
    /\ Quiet
    /\ UNCHANGED <<classVars, sessions, now, userMemberships, pc, loc>>
    /\ IF SelectTrainer(input.trainer_id) = {}
       THEN Returns("getTrainerAvailability", "NotFound")
       ELSE IF ~ trainersTable[input.trainer_id].is_available
       THEN Returns("getTrainerAvailability", "InvalidState")
       ELSE last' = [op |-> "getTrainerAvailability", outcome |-> "ok",
                     result |-> AvailableSlots(sessions,
                                    SelectSessionsOfDay(sessions, input.trainer_id,
                                                        input.date),
                                    businessStart)]

(* Availability: one user books the available trainer on one day, at midnight *)
(* and at noon timestamps, marks sessions cancelled or completed, and asks    *)
(* for the open slots of that day and of another.                            *)

T900  == <<9, 10, 0, 0>>
T1200 == <<1, 2, 10, 0, 0>>

AvailBookInputs ==
    {input \in [user_id : {"u1"}, trainer_id : {"t1"},
                session_date : {D1, D1Noon},
                start_time : {T900, T1000}, end_time : {T1100, T1200},
                notes : {Undefined}] :
        input.start_time = T900 => input.end_time = T1100}

AvailUpdateInputs ==
    [session_id : 1..MaxSessions, user_id : {"u1"},
     status : {"cancelled", "completed"}, notes : {Undefined}]

AvailabilityInputs == [trainer_id : TrainerIds, date : {D1, D2}]

NextAvail ==
    \/ \E input \in AvailBookInputs : bookPersonalTraining(input)
    \/ \E input \in AvailUpdateInputs : updatePersonalTraining(input)
    \/ \E input \in AvailabilityInputs : getTrainerAvailability(input)

SpecAvail == InitPT /\ [][NextAvail]_vars

\* The 12 hourly labels 09:00, 10:00, ..., 20:00
C18_Labels ==
    {<<0, 9, 10, 0, 0>>, <<1, 0, 10, 0, 0>>, <<1, 1, 10, 0, 0>>,
     <<1, 2, 10, 0, 0>>, <<1, 3, 10, 0, 0>>, <<1, 4, 10, 0, 0>>,
     <<1, 5, 10, 0, 0>>, <<1, 6, 10, 0, 0>>, <<1, 7, 10, 0, 0>>,
     <<1, 8, 10, 0, 0>>, <<1, 9, 10, 0, 0>>, <<2, 0, 10, 0, 0>>}

\* start_time <= slot < end_time, the three compared as the strings they are
C18_Covers(row, slot) ==
    /\ row.start_time = slot \/ StrLess(row.start_time, slot)
    /\ StrLess(slot, row.end_time)

\* The labels that no scheduled session of the trainer on the day covers
C18_Open(input) ==
    {slot \in C18_Labels :
        ~ \E i \in DOMAIN sessions :
              /\ sessions[i].trainer_id = input.trainer_id
              /\ sessions[i].session_date.day = input.date.day
              /\ sessions[i].status = "scheduled"
              /\ C18_Covers(sessions[i], slot)}

\* C18: for an existing available trainer, getTrainerAvailability returns, in
\* ascending order, exactly those of the 12 hourly labels 09:00 .. 20:00 for
\* which no scheduled session of that trainer on that date has
\* start_time <= slot < end_time; cancelled and completed sessions remove no
\* slot, with no scheduled session all 12 are returned, and a single session
\* 10:00-11:00 removes exactly 10:00.
C18_OpenSlots ==
    [][\A input \in AvailabilityInputs :
          (/\ input.trainer_id \in DOMAIN trainersTable
           /\ trainersTable[input.trainer_id].is_available
           /\ getTrainerAvailability(input)) =>
              LET result == last'.result
              IN  /\ last'.outcome = "ok"
                  /\ {result[k] : k \in DOMAIN result} = C18_Open(input)
                  /\ \A k \in 1..(Len(result) - 1) :
                         TotalMinutes(result[k]) < TotalMinutes(result[k + 1])
                  /\ (\A i \in DOMAIN sessions : sessions[i].status # "scheduled")
                         => Len(result) = 12]_vars

\* The trainer has a scheduled session 10:00-11:00 and a cancelled or completed
\* one on the day, and the answer just given lacks 10:00 only.
C18_Witness ==
    /\ last.op = "getTrainerAvailability"
    /\ last.outcome = "ok"
    /\ Len(last.result) = 11
    /\ \A k \in DOMAIN last.result : last.result[k] # T1000
    /\ \E i, j \in DOMAIN sessions :
           /\ sessions[i].status = "scheduled"
           /\ sessions[i].start_time = T1000 /\ sessions[i].end_time = T1100
           /\ sessions[j].status # "scheduled"
           /\ sessions[j].session_date.day = sessions[i].session_date.day

----------------------------------------------------------------------------
(* Memberships: tiers, calendar dates, Date.prototype.setMonth *)

membershipTiersTable ==
    [tier1   |-> [duration_months |-> 1,  is_active |-> TRUE],
     tier3   |-> [duration_months |-> 3,  is_active |-> TRUE],
     tier6   |-> [duration_months |-> 6,  is_active |-> TRUE],
     tier12  |-> [duration_months |-> 12, is_active |-> TRUE],
     tierOff |-> [duration_months |-> 1,  is_active |-> FALSE]]

TierIds == DOMAIN membershipTiersTable \cup {"tier9"}

\* A Date in local time: year, month 0..11 as getMonth() counts, day of the
\* month, and the time within the day.
IsLeapYear(year) == (year % 4 = 0 /\ year % 100 # 0) \/ year % 400 = 0

DaysInYear(year) == IF IsLeapYear(year) THEN 366 ELSE 365

DaysInMonth(year, month) ==
    IF month = 1 THEN (IF IsLeapYear(year) THEN 29 ELSE 28)
    ELSE IF month \in {3, 5, 8, 10} THEN 30 ELSE 31

\* the day number of 1 January of the year, counted from 1 January 1970
DayFromYear(year) ==
    365 * (year - 1970) + ((year - 1969) \div 4) - ((year - 1901) \div 100)
        + ((year - 1601) \div 400)

RECURSIVE DayWithinYear(_, _)
\* the days of the year before the first of the month
DayWithinYear(year, month) ==
    IF month = 0 THEN 0
    ELSE DayWithinYear(year, month - 1) + DaysInMonth(year, month - 1)

\* MakeDay(year, month, date): the month is carried into the year, the date is
\* counted on from the first of that month
MakeDay(year, month, date) ==
    LET ym == year + (month \div 12)
        mn == month % 12
    IN  DayFromYear(ym) + DayWithinYear(ym, mn) + date - 1

Years == 2024..2027

YearFromDay(day) ==
    CHOOSE year \in Years : DayFromYear(year) <= day /\ day < DayFromYear(year + 1)

MonthFromDay(day) ==
    LET year == YearFromDay(day)
        within == day - DayFromYear(year)
    IN  CHOOSE month \in 0..11 :
            /\ DayWithinYear(year, month) <= within
            /\ within < DayWithinYear(year, month) + DaysInMonth(year, month)

DateFromDay(day) ==
    LET year == YearFromDay(day)
    IN  day - DayFromYear(year) - DayWithinYear(year, MonthFromDay(day)) + 1

\* a month-adding that stops at the last day of the target month
SetMonthClamped(date, month) ==
    LET ym == date.year + (month \div 12)
        mn == month % 12
    IN  [date EXCEPT !.year = ym, !.month = mn,
                     !.day = IF date.day <= DaysInMonth(ym, mn)
                             THEN date.day ELSE DaysInMonth(ym, mn)]

\* date.setMonth(month): MakeDay of the date's year and day with the new month,
\* the time within the day kept
SetMonth(date, month) ==
    LET day == MakeDay(date.year, month, date.day)
    IN  [date EXCEPT !.year = YearFromDay(day), !.month = MonthFromDay(day),
                     !.day = DateFromDay(day)]

(* createUserMembership: the store calls *)

\* select from membership_tiers where id = membership_tier_id
SelectTier(membership_tier_id) ==
    {t \in DOMAIN membershipTiersTable : t = membership_tier_id}

\* endDate = new Date(start_date); endDate.setMonth(endDate.getMonth() + duration_months)
EndDate(start_date, duration_months) ==
    SetMonth(start_date, start_date.month + duration_months)

\* insert into user_memberships (user_id, membership_tier_id, start_date,
\* end_date); status, created_at and updated_at take their column defaults
InsertMembership(rows, input, end_date, at) ==
    Append(rows, [id |-> Len(rows) + 1,
                  user_id |-> input.user_id,
                  membership_tier_id |-> input.membership_tier_id,
                  start_date |-> input.start_date,
                  end_date |-> end_date,
                  status |-> "active",
                  created_at |-> at,
                  updated_at |-> at])

createUserMembership(input) ==
    /\ Quiet
    /\ UNCHANGED <<classVars, sessions, now, pc, loc>>
    /\ IF SelectUser(input.user_id) = {}
       THEN Returns("createUserMembership", "NotFound") /\ UNCHANGED userMemberships
       ELSE IF SelectTier(input.membership_tier_id) = {}
       THEN Returns("createUserMembership", "NotFound") /\ UNCHANGED userMemberships
       ELSE IF ~ membershipTiersTable[input.membership_tier_id].is_active
       THEN Returns("createUserMembership", "InvalidState")
            /\ UNCHANGED userMemberships
       ELSE /\ userMemberships' =
                   InsertMembership(userMemberships, input,
                       EndDate(input.start_date,
                               membershipTiersTable[input.membership_tier_id]
                                   .duration_months),
                       now)
            /\ Returns("createUserMembership", "ok")

(* End dates: memberships created for start dates at the ends and the starts *)
(* of months of a leap year and of the year after it.                        *)

MaxDatedMemberships == 1

Midnight == 0
HalfPastTen == 37800000

StartDates ==
    {date \in [year : {2024, 2025}, month : {0, 1, 9}, day : {1, 29, 31},
               tod : {Midnight, HalfPastTen}] :
        /\ date.day <= DaysInMonth(date.year, date.month)
        /\ date.tod = HalfPastTen => (date.year = 2024 /\ date.day = 31)}

\* Calls that fail are made with one start date only.
DatedInputs ==
    {input \in [user_id : {"u1", "u9"}, membership_tier_id : TierIds,
                start_date : StartDates] :
        (\/ input.user_id = "u9"
         \/ input.membership_tier_id \in {"tier9", "tierOff"})
            => input.start_date = [year |-> 2024, month |-> 0, day |-> 1,
                                   tod |-> Midnight]}

NextDated ==
    \E input \in DatedInputs :
        createUserMembership(input) /\ Len(userMemberships') <= MaxDatedMemberships

SpecDated == InitPT /\ [][NextDated]_vars

\* The lengths of the months January .. December
C19_MonthLength(year, month) ==
    IF month = 1 /\ year % 4 = 0 /\ (year % 100 # 0 \/ year % 400 = 0) THEN 29
    ELSE <<31, 28, 31, 30, 31, 30, 31, 31, 30, 31, 30, 31>>[month + 1]

\* s with its month advanced by d calendar months; a day the target month does
\* not have rolls forward into the month after it
C19_Advanced(s, d) ==
    LET y == s.year + ((s.month + d) \div 12)
        m == (s.month + d) % 12
        len == C19_MonthLength(y, m)
    IN  IF s.day <= len
        THEN [year |-> y, month |-> m, day |-> s.day, tod |-> s.tod]
        ELSE [year |-> IF m = 11 THEN y + 1 ELSE y, month |-> (m + 1) % 12,
              day |-> s.day - len, tod |-> s.tod]

C19_Date(year, month, day) ==
    [year |-> year, month |-> month - 1, day |-> day, tod |-> Midnight]

\* C19: for every start date s and every active tier with duration_months = d,
\* a createUserMembership call that succeeds stores end_date = s with its
\* month advanced by d calendar months, a day-of-month that the target month
\* does not have rolling forward into the following month (2024-02-29 + 12 is
\* 2025-03-01, 2024-10-31 + 3 is 2025-01-31, 2024-01-01 + 6 is 2024-07-01).
C19_EndDateRollsOver ==
    [][\A input \in DatedInputs :
          (/\ last'.outcome = "ok"
           /\ Len(userMemberships') = Len(userMemberships) + 1
           /\ userMemberships'[Len(userMemberships')].start_date = input.start_date
           /\ createUserMembership(input)) =>
              LET d == membershipTiersTable[input.membership_tier_id].duration_months
                  s == input.start_date
                  stored == userMemberships'[Len(userMemberships')]
              IN  /\ stored.start_date = s
                  /\ stored.end_date = C19_Advanced(s, d)
                  /\ (s = C19_Date(2024, 2, 29) /\ d = 12) =>
                         stored.end_date = C19_Date(2025, 3, 1)
                  /\ (s = C19_Date(2024, 10, 31) /\ d = 3) =>
                         stored.end_date = C19_Date(2025, 1, 31)
                  /\ (s = C19_Date(2024, 1, 1) /\ d = 6) =>
                         stored.end_date = C19_Date(2024, 7, 1)]_vars

\* A membership that starts on 29 February of a leap year and ends on 1 March
\* of the next year.
C19_Witness ==
    /\ last = [op |-> "createUserMembership", outcome |-> "ok"]
    /\ \E i \in DOMAIN userMemberships :
           /\ userMemberships[i].start_date = C19_Date(2024, 2, 29)
           /\ userMemberships[i].end_date = C19_Date(2025, 3, 1)

----------------------------------------------------------------------------
(* getUserMembership *)

\* the select without its status condition
SelectMembershipsOfUser(rows, user_id) ==
    {i \in DOMAIN rows : rows[i].user_id = user_id}

\* select from user_memberships where user_id = .. and status = 'active'
SelectActiveMemberships(rows, user_id) ==
    {i \in DOMAIN rows : rows[i].user_id = user_id /\ rows[i].status = "active"}

\* the ordering taken ascending: a selected row that no selected row precedes
FirstByCreatedAsc(rows, selected) ==
    {i \in selected : \A j \in selected : rows[i].created_at <= rows[j].created_at}

\* order by created_at desc limit 1: a selected row that no selected row
\* follows in creation time (any of them, when several share that instant)
FirstByCreatedDesc(rows, selected) ==
    {i \in selected : \A j \in selected : rows[j].created_at <= rows[i].created_at}

\* What the call returns: null, or the one row, held as a set of at most one
NoMembership == {}

getUserMembership(input) ==
    /\ Quiet
    /\ UNCHANGED <<classVars, sessions, now, userMemberships, pc, loc>>
    /\ LET selected == SelectActiveMemberships(userMemberships, input.user_id)
       IN  IF selected = {}
           THEN last' = [op |-> "getUserMembership", outcome |-> "ok",
                         result |-> NoMembership]
           ELSE \E i \in FirstByCreatedDesc(userMemberships, selected) :
                    last' = [op |-> "getUserMembership", outcome |-> "ok",
                             result |-> {userMemberships[i]}]

\* No handler writes the status column: a membership expires or is cancelled
\* by a write made to the store directly.
MembershipStatusSet(i, status) ==
    /\ Quiet
    /\ i \in DOMAIN userMemberships
    /\ userMemberships[i].status # status
    /\ userMemberships' = [userMemberships EXCEPT ![i].status = status]
    /\ UNCHANGED <<classVars, sessions, now, last, pc, loc>>

(* Memberships of two users, created at different instants, some expired or *)
(* cancelled, and read back by them and by an unknown user.                 *)

MaxMemberships == 2

MembershipInputs ==
    [user_id : PTUsers, membership_tier_id : {"tier12"},
     start_date : {[year |-> 2024, month |-> 0, day |-> 1, tod |-> Midnight]}]

GetMembershipInputs == [user_id : PTUsers \cup {"u9"}]

NextMembership ==
    \/ Tick
    \/ \E input \in MembershipInputs :
           createUserMembership(input) /\ Len(userMemberships') <= MaxMemberships
    \/ \E i \in 1..MaxMemberships, status \in {"expired", "cancelled"} :
           MembershipStatusSet(i, status)
    \/ \E input \in GetMembershipInputs : getUserMembership(input)

SpecMembership == InitPT /\ [][NextMembership]_vars

\* The user's memberships with stored status active
C20_ActiveOf(user_id) ==
    {i \in DOMAIN userMemberships :
        /\ userMemberships[i].user_id = user_id
        /\ userMemberships[i].status = "active"}

\* C20: getUserMembership returns, among the memberships of the given user
\* whose stored status is active, the one created latest, and returns the none
\* sentinel (null) when the user has no membership with status active, an
\* unknown user included; an expired or cancelled membership is never returned.
C20_LatestActive ==
    [][\A input \in GetMembershipInputs :
          getUserMembership(input) =>
              LET active == C20_ActiveOf(input.user_id)
                  result == last'.result
              IN  /\ last'.outcome = "ok"
                  /\ IF active = {}
                     THEN result = {}
                     ELSE \E i \in active :
                              /\ result = {userMemberships[i]}
                              /\ \A j \in active :
                                     userMemberships[j].created_at
                                         <= userMemberships[i].created_at
                  /\ \A row \in result :
                         row.status = "active" /\ row.user_id = input.user_id]_vars

\* The call has just returned a user's active membership although the same
\* user has a membership created later, which is expired or cancelled.
C20_Witness ==
    /\ last.op = "getUserMembership"
    /\ \E row \in last.result, i \in DOMAIN userMemberships :
           /\ userMemberships[i].user_id = row.user_id
           /\ userMemberships[i].status # "active"
           /\ userMemberships[i].created_at > row.created_at

----------------------------------------------------------------------------
(* Create, then read back: as SpecMembership, with the store's clock ahead   *)
(* of every stored created_at whenever a membership is inserted (two inserts *)
(* made one after the other never read the same instant).                    *)

ClockAhead == \A i \in DOMAIN userMemberships : userMemberships[i].created_at < now

NextRoundTrip ==
    \/ Tick
    \/ \E input \in MembershipInputs :
           /\ ClockAhead
           /\ createUserMembership(input)
           /\ Len(userMemberships') <= MaxMemberships
    \/ \E i \in 1..MaxMemberships, status \in {"expired", "cancelled"} :
           MembershipStatusSet(i, status)
    \/ \E input \in GetMembershipInputs : getUserMembership(input)

SpecRoundTrip == InitPT /\ [][NextRoundTrip]_vars

\* The call before was the createUserMembership that stored the last row, for
\* this user, and the row is as it was stored.
C21_JustCreated(input) ==
    /\ last = [op |-> "createUserMembership", outcome |-> "ok"]
    /\ userMemberships # <<>>
    /\ userMemberships[Len(userMemberships)].user_id = input.user_id
    /\ userMemberships[Len(userMemberships)].status = "active"

C22_FailingInputs ==
    {input \in DatedInputs :
        \/ input.user_id \notin usersTable
        \/ input.membership_tier_id \notin DOMAIN membershipTiersTable
        \/ ~ membershipTiersTable[input.membership_tier_id].is_active}

\* C22: createUserMembership fails with NotFound when user_id names no user,
\* with NotFound when the tier does not exist, and with InvalidState when the
\* tier is not active; in each case no membership is created and the store is
\* unchanged.
C22_CreateFailures ==
    [][\A input \in C22_FailingInputs :
          createUserMembership(input) =>
              /\ last'.outcome =
                     IF input.user_id \notin usersTable THEN "NotFound"
                     ELSE IF input.membership_tier_id \notin DOMAIN membershipTiersTable
                     THEN "NotFound"
                     ELSE "InvalidState"
              /\ userMemberships' = userMemberships
              /\ UNCHANGED <<classVars, sessions>>]_vars

\* A membership is stored and a later call for the inactive tier has just
\* been refused.
C22_Witness ==
    /\ last = [op |-> "createUserMembership", outcome |-> "InvalidState"]
    /\ userMemberships # <<>>

\* The bookPersonalTraining inputs that name an unknown user, an unknown
\* trainer or a trainer who is not available
C23_FailingInputs ==
    {input \in BookInputs :
        \/ input.user_id \notin usersTable
        \/ input.trainer_id \notin DOMAIN trainersTable
        \/ ~ trainersTable[input.trainer_id].is_available}

\* C23: bookPersonalTraining fails with NotFound when the user does not exist,
\* with NotFound when the trainer does not exist, and with InvalidState when
\* the trainer is not available; these checks come before the conflict and
\* time checks (the times and the stored sessions do not matter), and no
\* session is created.
C23_BookFailures ==
    [][\A input \in C23_FailingInputs :
          bookPersonalTraining(input) =>
              /\ last'.outcome =
                     IF input.user_id \notin usersTable THEN "NotFound"
                     ELSE IF input.trainer_id \notin DOMAIN trainersTable
                     THEN "NotFound"
                     ELSE "InvalidState"
              /\ sessions' = sessions]_vars

\* A session is stored and a call for the unavailable trainer has just been
\* refused.
C23_Witness ==
    /\ last = [op |-> "bookPersonalTraining", outcome |-> "InvalidState"]
    /\ sessions # <<>>

----------------------------------------------------------------------------
(* Updating while the clock runs: user u2 holds a session booked earlier;    *)
(* user u1 books sessions with a note and updates status and notes, and u2   *)
(* tries to update them.                                                     *)

MaxUpdSessions == 2

\* bookPersonalTraining(u2, t1, D2, 09:00, 10:00, "theirs") at instant 0
SeedInput ==
    [user_id |-> "u2", trainer_id |-> "t1", session_date |-> D2,
     start_time |-> T0900, end_time |-> T1000, notes |-> "theirs"]

InitSeeded ==
    /\ classSchedules = [s \in ScheduleRows |->
                            [available_spots |-> 0, is_cancelled |-> s # "s1"]]
    /\ classBookings = <<>>
    /\ sessions = InsertSession(<<>>, SeedInput,
                      SessionPrice(trainersTable["t1"].hourly_rate,
                                   DurationMinutes(T0900, T1000)), 0)
    /\ userMemberships = <<>>
    /\ now = 0
    /\ last = [op |-> "bookPersonalTraining", outcome |-> "ok"]
    /\ pc = [p \in Procs |-> "idle"]
    /\ loc = [p \in Procs |-> Idle]
    /\ spots0 = [s \in ScheduleRows |-> 0]
    /\ confirmedCreated = [s \in ScheduleRows |-> 0]

UpdBookInputs ==
    [user_id : {"u1"}, trainer_id : {"t1"}, session_date : {D1},
     start_time : {T0900}, end_time : {T1000}, notes : {"note"}]

UpdInputs ==
    [session_id : 1..MaxUpdSessions, user_id : PTUsers,
     status : {Undefined, "completed", "cancelled"},
     notes : {Undefined, Null, "other"}]

\* u2 leaves the session they own as it is.
NextUpdate ==
    \/ Tick
    \/ \E input \in UpdBookInputs :
           bookPersonalTraining(input) /\ Len(sessions') <= MaxUpdSessions
    \/ \E input \in UpdInputs :
           /\ input.user_id = "u2" => input.session_id # 1
           /\ updatePersonalTraining(input)

SpecUpdate == InitSeeded /\ [][NextUpdate]_vars

\* C24: an updatePersonalTraining call that succeeds changes only the supplied
\* fields among status and notes (an omitted field keeps its value, a null for
\* notes clears it) and sets updated_at to the current instant; user_id,
\* trainer_id, session_date, start_time, end_time and price of the session,
\* and every other session, are unchanged.
C24_UpdateFrame ==
    [][\A input \in UpdInputs :
          (updatePersonalTraining(input) /\ last'.outcome = "ok") =>
              LET old == sessions[input.session_id]
                  new == sessions'[input.session_id]
              IN  /\ new.status = IF input.status = Undefined THEN old.status
                                  ELSE input.status
                  /\ new.notes = IF input.notes = Undefined THEN old.notes
                                 ELSE input.notes
                  /\ new.updated_at = now
                  /\ new.id = old.id
                  /\ new.user_id = old.user_id
                  /\ new.trainer_id = old.trainer_id
                  /\ new.session_date = old.session_date
                  /\ new.start_time = old.start_time
                  /\ new.end_time = old.end_time
                  /\ new.price = old.price
                  /\ DOMAIN sessions' = DOMAIN sessions
                  /\ \A i \in DOMAIN sessions :
                         i # input.session_id => sessions'[i] = sessions[i]]_vars

\* A session booked with a note has had its notes cleared at a later instant
\* by the update that has just returned; its status is still scheduled and
\* the other user's session is as it was booked.
C24_Witness ==
    /\ last = [op |-> "updatePersonalTraining", outcome |-> "ok"]
    /\ Len(sessions) = 2
    /\ sessions[2].notes = Null
    /\ sessions[2].status = "scheduled"
    /\ sessions[2].updated_at = now /\ now > 0
    /\ sessions[1].notes = "theirs" /\ sessions[1].updated_at = 0

----------------------------------------------------------------------------
(* Status transitions: two users book a session each and set its status.     *)

SessionStatuses == {"scheduled", "completed", "cancelled"}

TransInputs == {input \in UpdateInputs : input.status \in SessionStatuses}

TransBookInputs ==
    {input \in BookInputs :
        /\ input.user_id \in PTUsers
        /\ input.trainer_id = "t1"
        /\ input.start_time = T0900
        /\ input.end_time = T1000}

NextTransitions ==
    \/ \E input \in TransBookInputs : bookPersonalTraining(input)
    \/ \E input \in TransInputs : updatePersonalTraining(input)

SpecTransitions == InitPT /\ [][NextTransitions]_vars

\* The owner's call that sets the status of session i
C25_SetStatus(i, status) ==
    [session_id |-> i, user_id |-> sessions[i].user_id, status |-> status,
     notes |-> Undefined]

\* C25: updatePersonalTraining restricts no transition: whatever the status of
\* a session, its owner's call setting any of scheduled, completed, cancelled
\* succeeds and stores that status, so scheduled -> cancelled -> scheduled ->
\* completed succeeds at every step and every status is reachable from every
\* other.
C25_AnyTransition ==
    \A i \in DOMAIN sessions, status \in SessionStatuses :
        ENABLED (/\ updatePersonalTraining(C25_SetStatus(i, status))
                 /\ last'.outcome = "ok"
                 /\ sessions'[i].status = status)

\* Two scheduled sessions of one trainer, date and hour: the first was set
\* from scheduled to another status, the hour was booked again, and the update
\* that has just returned set the first back to scheduled.
C25_Witness ==
    /\ last = [op |-> "updatePersonalTraining", outcome |-> "ok"]
    /\ Len(sessions) = 2
    /\ SameSlotOwner(1, 2)
    /\ sessions[1].start_time = sessions[2].start_time

----------------------------------------------------------------------------
(* Prices: sessions of twenty, seventy and ninety minutes booked with a      *)
(* trainer at 75.00 an hour and with one at 50.00 an hour.                   *)

T0920 == <<0, 9, 10, 2, 0>>
T1030 == <<1, 0, 10, 3, 0>>

PriceInputs ==
    [user_id : {"u1"}, trainer_id : {"t1", "t3"}, session_date : Dates,
     start_time : {T0900, T0920, T1030}, end_time : {T0900, T0920, T1030},
     notes : {Undefined}]

NextPrice == \E input \in PriceInputs : bookPersonalTraining(input)

SpecPrice == InitPT /\ [][NextPrice]_vars

\* hours * 60 + minutes of an HH:MM string
C26_MinuteOfDay(time) ==
    (time[1] * 10 + time[2]) * 60 + time[4] * 10 + time[5]

C26_Minutes(row) == C26_MinuteOfDay(row.end_time) - C26_MinuteOfDay(row.start_time)

C26_Rate(row) == trainersTable[row.trainer_id].hourly_rate

\* The claim as stated: the stored price is exactly hourly_rate * minutes / 60
\* (prices and rates in cents), start_time is before end_time, price >= 0.
C26_PriceExact ==
    \A i \in DOMAIN sessions :
        /\ sessions[i].price * 60 = C26_Rate(sessions[i]) * C26_Minutes(sessions[i])
        /\ C26_Minutes(sessions[i]) > 0
        /\ sessions[i].price >= 0

\* C26: the price stored by a successful bookPersonalTraining is the trainer's
\* hourly_rate times the session length in minutes divided by 60, to the
\* nearest cent as the numeric(8,2) column holds it (rate 75.00 with
\* 09:00-10:30 gives 112.50); every stored session has start_time before
\* end_time and price >= 0.
C26_PriceToTheCent ==
    \A i \in DOMAIN sessions :
        LET exact60 == C26_Rate(sessions[i]) * C26_Minutes(sessions[i])
            stored60 == sessions[i].price * 60
        IN  /\ stored60 - exact60 <= 30
            /\ exact60 - stored60 <= 30
            /\ (sessions[i].trainer_id = "t1" /\ sessions[i].start_time = T0900
                   /\ sessions[i].end_time = T1030) => sessions[i].price = 11250
            /\ C26_Minutes(sessions[i]) > 0
            /\ sessions[i].price >= 0

\* A ninety-minute session at 75.00 an hour stored at 112.50 and a
\* twenty-minute session at 50.00 an hour stored at 16.67.
C26_Witness ==
    /\ last = [op |-> "bookPersonalTraining", outcome |-> "ok"]
    /\ \E i, j \in DOMAIN sessions :
           /\ sessions[i].trainer_id = "t1" /\ sessions[i].price = 11250
           /\ sessions[j].trainer_id = "t3" /\ sessions[j].price = 1667
           /\ C26_Minutes(sessions[j]) = 20

----------------------------------------------------------------------------
(* The life of a class booking *)

\* C27: in any sequence of bookClass and cancelClassBooking calls a booking
\* is created as confirmed or waitlist, no booking row disappears, and the
\* status of an existing booking either stays as it is or goes from
\* confirmed or waitlist to cancelled: cancelled is terminal and a waitlist
\* booking never becomes confirmed.
C27_OneWayStatus ==
    [][/\ Len(classBookings') >= Len(classBookings)
       /\ \A i \in DOMAIN classBookings' :
              IF i \in DOMAIN classBookings
              THEN \/ classBookings'[i].booking_status =
                          classBookings[i].booking_status
                   \/ /\ classBookings[i].booking_status \in {"confirmed", "waitlist"}
                      /\ classBookings'[i].booking_status = "cancelled"
              ELSE classBookings'[i].booking_status \in {"confirmed", "waitlist"}]_vars

\* The only seat was booked and a second booking was waitlisted; the
\* confirmed one was cancelled at an earlier instant and the waitlisted one
\* has just been cancelled, never having been confirmed.
C27_Witness ==
    /\ last = [op |-> "cancelClassBooking", outcome |-> "ok"]
    /\ spots0["s1"] = 1
    /\ confirmedCreated["s1"] = 1
    /\ Len(classBookings) = 2
    /\ classBookings[1].booking_status = "cancelled"
    /\ classBookings[2].booking_status = "cancelled"
    /\ \E t \in 0..MaxNow : classBookings[1].cancelled_at = {t} /\ t < now
    /\ classBookings[2].cancelled_at = {now}

----------------------------------------------------------------------------
(* Open slots against the booking conflict rule: sessions that start on the  *)
(* hour or on the half hour.                                                 *)

SlotBookInputs ==
    [user_id : {"u1"}, trainer_id : {"t1"}, session_date : Dates,
     start_time : {T1000, T1030}, end_time : {T1100, T1200},
     notes : {Undefined}]

SlotInputs == [trainer_id : {"t1"}, date : Dates]

NextSlots ==
    \/ \E input \in SlotBookInputs : bookPersonalTraining(input)
    \/ \E input \in SlotInputs : getTrainerAvailability(input)

SpecSlots == InitPT /\ [][NextSlots]_vars

\* the request for the one-hour session that starts at a slot label
C28_HourAt(input, slot) ==
    [user_id |-> "u1", trainer_id |-> input.trainer_id,
     session_date |-> input.date, start_time |-> slot,
     end_time |-> TimeSlot(Number(SubSeq(slot, 1, 2)) + 1),
     notes |-> Undefined]

\* C28: every slot label HH:00 that getTrainerAvailability returns for a
\* trainer and a date can be booked, with no write in between, through
\* bookPersonalTraining as the session [HH:00, HH+1:00) of that trainer on
\* that date without a Conflict failure.
C28_OpenSlotsBookable ==
    [][\A input \in SlotInputs :
          (getTrainerAvailability(input) /\ last'.outcome = "ok") =>
              \A k \in DOMAIN last'.result :
                  LET request == C28_HourAt(input, last'.result[k])
                  IN  ~ HasConflict(sessions,
                            SelectScheduledSessions(sessions, request.trainer_id,
                                                    request.session_date),
                            request.start_time, request.end_time)]_vars

----------------------------------------------------------------------------
(* String order against minute-of-day order *)

\* half-open interval overlap on minutes of the day
C29_OverlapsInMinutes(row, input) ==
    /\ TotalMinutes(input.start_time) < TotalMinutes(row.end_time)
    /\ TotalMinutes(row.start_time) < TotalMinutes(input.end_time)

\* start <= slot < end on minutes of the day
C29_CoversInMinutes(row, slot) ==
    /\ TotalMinutes(row.start_time) <= TotalMinutes(slot)
    /\ TotalMinutes(slot) < TotalMinutes(row.end_time)

\* C29: for the start_time and end_time strings the input schema accepts, a
\* single-digit hour such as 9:00 included, the string comparisons of the
\* booking conflict check and of the availability calculation decide as the
\* minute-of-day values do: a booking is refused with Conflict exactly when
\* a scheduled session of the trainer with the same session_date overlaps it
\* as a half-open interval of minutes, and a slot is reported open exactly
\* when no scheduled session of the trainer on the day covers its minute.
C29_StringOrderIsNumeric ==
    [][/\ \A input \in AvailBookInputs :
              bookPersonalTraining(input) =>
                  (last'.outcome = "Conflict" <=>
                      \E i \in DOMAIN sessions :
                          /\ sessions[i].trainer_id = input.trainer_id
                          /\ sessions[i].session_date = input.session_date
                          /\ sessions[i].status = "scheduled"
                          /\ C29_OverlapsInMinutes(sessions[i], input))
       /\ \A input \in AvailabilityInputs :
              (getTrainerAvailability(input) /\ last'.outcome = "ok") =>
                  {last'.result[k] : k \in DOMAIN last'.result} =
                      {slot \in C18_Labels :
                          ~ \E i \in DOMAIN sessions :
                                /\ sessions[i].trainer_id = input.trainer_id
                                /\ sessions[i].session_date.day = input.date.day
                                /\ sessions[i].status = "scheduled"
                                /\ C29_CoversInMinutes(sessions[i], slot)}]_vars

----------------------------------------------------------------------------
(* Which sessions belong to a date *)

\* C30: a scheduled session of the trainer whose session_date lies on the
\* calendar day of a booking request counts as a session of that date for
\* the booking conflict check whatever its time of day, as it does for the
\* availability calculation: a request that overlaps it under the conflict
\* rule is rejected with Conflict.
C30_SameDayConflict ==
    [][\A input \in AvailBookInputs :
          (/\ \E i \in DOMAIN sessions :
                  /\ sessions[i].trainer_id = input.trainer_id
                  /\ sessions[i].status = "scheduled"
                  /\ sessions[i].session_date.day = input.session_date.day
                  /\ Overlaps(input.start_time, input.end_time,
                              sessions[i].start_time, sessions[i].end_time)
           /\ bookPersonalTraining(input)) =>
              last'.outcome = "Conflict"]_vars

====
